---- MODULE Spec2Model ----
(***************************************************************************)
(* A model of translate/tools/unflatten.py: the key parser (_parse_key,    *)
(* _unparse_key), the container builder (unflatten) and the materializer   *)
(* (_list_holder.getvalue, _dict_holder.getvalue).                         *)
(*                                                                         *)
(* A Python string is a sequence of one-character strings.  A path segment *)
(* (a str or an int in the list _parse_key returns) is a record that says  *)
(* which of the two it is.                                                 *)
(***************************************************************************)
EXTENDS Integers, Sequences, FiniteSets, TLC

VARIABLES
    \* ---- the parser round trip: parse_key(unparse_key(parse_key(s)))
    flat_key,      \* the string handed to _parse_key
    parsed,        \* _parse_key(flat_key)
    unparsed,      \* _unparse_key(parsed)
    reparsed,      \* _parse_key(unparsed)
    ppc,           \* position of the round trip
    \* ---- one call of unflatten(arg)
    items,         \* the (flat_key, val) pairs of the argument, in order
    next_item,     \* index in items of the pair the for loop handles next
    heap,          \* the _holder objects created so far (index = identity)
    data,          \* the root OrderedDict: a sequence of entries
    holders,       \* the list holders: (obj, key) in creation order
    fin,           \* number of entries of reversed(holders) handled so far
    assert_failed, \* whether "assert key > n" failed in some getvalue
    pc,            \* "loop", "finalize", "returned", "raised", an exception, "idle"
    \* ---- two calls of unflatten: on a sequence of pairs and on a permutation
    permuted,      \* the pairs of items in another order
    first,         \* the outcome of unflatten(items)
    second,        \* the outcome of unflatten(permuted)
    opc            \* "first", "second", "compared", "idle"

vars == <<flat_key, parsed, unparsed, reparsed, ppc,
          items, next_item, heap, data, holders, fin, assert_failed, pc,
          permuted, first, second, opc>>

parse_vars == <<flat_key, parsed, unparsed, reparsed, ppc>>
unflatten_vars == <<items, next_item, heap, data, holders, fin, assert_failed, pc>>
order_vars == <<permuted, first, second, opc>>

----------------------------------------------------------------------------
(* Bounds of the model *)

\* longest string handed to _parse_key in the round-trip specification
MaxLen == 5
\* largest number of (key, value) pairs in the argument of unflatten
MaxPairs == 3
\* largest number of pairs in the argument that is permuted
MaxOrderPairs == 3

----------------------------------------------------------------------------
(* Characters, int() and "%d" *)

DigitChars == <<"0", "1", "2", "3", "4", "5", "6", "7", "8", "9">>

\* the regular expression class \d
IsDigit(c) == c \in {"0", "1", "2", "3", "4", "5", "6", "7", "8", "9"}

DigitVal(c) == (CHOOSE d \in 1..10 : DigitChars[d] = c) - 1

\* int(s) for a string of digits: leading zeros vanish
RECURSIVE IntOf(_)
IntOf(ds) ==
    IF ds = <<>> THEN 0
    ELSE IntOf(SubSeq(ds, 1, Len(ds) - 1)) * 10 + DigitVal(ds[Len(ds)])

\* "%d" % n for n >= 0
RECURSIVE FormatInt(_)
FormatInt(n) ==
    IF n < 10 THEN <<DigitChars[n + 1]>>
    ELSE FormatInt(n \div 10) \o <<DigitChars[(n % 10) + 1]>>

\* a str element of a parsed key
Name(s) == [isName |-> TRUE, name |-> s, idx |-> 0]
\* an int element of a parsed key
Index(n) == [isName |-> FALSE, name |-> <<>>, idx |-> n]

----------------------------------------------------------------------------
(* _dot_or_indexes_re = (\.|(?:\[\d+\])+(?=\.|\Z)) *)

\* the first position >= i of s that holds no digit (Len(s)+1 when none)
RECURSIVE DigitsEnd(_, _)
DigitsEnd(s, i) ==
    IF i <= Len(s) /\ IsDigit(s[i]) THEN DigitsEnd(s, i + 1) ELSE i

\* A bracket group as a permissive parser would read it: anything but a
\* bracket or a dot may stand between the brackets, as long as a digit does.
RECURSIVE InnerEnd(_, _)
InnerEnd(s, i) ==
    IF i <= Len(s) /\ s[i] \notin {"[", "]", "."} THEN InnerEnd(s, i + 1) ELSE i

GroupEndPermissive(s, i) ==
    IF i <= Len(s) /\ s[i] = "["
    THEN LET j == InnerEnd(s, i + 1)
         IN  IF j <= Len(s) /\ s[j] = "]"
                /\ \E k \in (i + 1)..(j - 1) : IsDigit(s[k])
             THEN j + 1 ELSE 0
    ELSE 0

\* \[\d+\] at position i: the position after the group, 0 when it does not match
GroupEnd(s, i) ==
    IF i <= Len(s) /\ s[i] = "["
    THEN LET j == DigitsEnd(s, i + 1)
         IN  IF j > i + 1 /\ j <= Len(s) /\ s[j] = "]" THEN j + 1 ELSE 0
    ELSE 0

\* (?:\[\d+\])+ is greedy: the position after the longest run of groups from i
\* (i itself when no group starts at i)
RECURSIVE RunEnd(_, _)
RunEnd(s, i) ==
    LET e == GroupEnd(s, i) IN IF e = 0 THEN i ELSE RunEnd(s, e)

\* The whole pattern at position i: the position after the match, 0 when none.
\* A shorter run never matches where the longest does not: it is followed by "[".
MatchEnd(s, i) ==
    IF i <= Len(s) /\ s[i] = "." THEN i + 1
    ELSE LET e == RunEnd(s, i)
         IN  IF e > i /\ (e = Len(s) + 1 \/ s[e] = ".") THEN e ELSE 0

\* _dot_or_indexes_re.split(s): text, separator, text, ..., text
RECURSIVE SplitFrom(_, _, _)
SplitFrom(s, start, i) ==
    IF i > Len(s) THEN <<SubSeq(s, start, Len(s))>>
    ELSE LET e == MatchEnd(s, i)
         IN  IF e # 0
             THEN <<SubSeq(s, start, i - 1), SubSeq(s, i, e - 1)>> \o SplitFrom(s, e, e)
             ELSE SplitFrom(s, start, i + 1)

dot_or_indexes_re_split(s) == SplitFrom(s, 1, 1)

\* map(int, re.findall(r'\d+', sep))
RECURSIVE FindInts(_, _)
FindInts(sep, i) ==
    IF i > Len(sep) THEN <<>>
    ELSE IF IsDigit(sep[i])
         THEN LET j == DigitsEnd(sep, i)
              IN  <<Index(IntOf(SubSeq(sep, i, j - 1)))>> \o FindInts(sep, j)
         ELSE FindInts(sep, i + 1)

\* the loop "for i in range(1, len(split_key), 2)" (i is 1-based here)
RECURSIVE ParseLoop(_, _, _)
ParseLoop(split_key, i, parts) ==
    IF i > Len(split_key) THEN parts
    ELSE LET sep == split_key[i]
         IN  IF sep = <<".">>
             THEN ParseLoop(split_key, i + 2, Append(parts, Name(split_key[i + 1])))
             ELSE ParseLoop(split_key, i + 2, parts \o FindInts(sep, 1))

\* _parse_key(flat_key), for a key that is a string
parse_key(k) ==
    LET split_key == dot_or_indexes_re_split(k)
    IN  ParseLoop(split_key, 2, <<Name(split_key[1])>>)

\* _unparse_key with the separating dot written before the first part too
RECURSIVE UnparseDotted(_, _, _)
UnparseDotted(p, i, bits) ==
    IF i > Len(p) THEN bits
    ELSE LET bit == IF p[i].isName THEN <<".">> \o p[i].name
                    ELSE <<"[">> \o FormatInt(p[i].idx) \o <<"]">>
         IN  UnparseDotted(p, i + 1, bits \o bit)

unparse_key_always_dot(p) == UnparseDotted(p, 1, <<>>)

\* the loop of _unparse_key; "if bits" holds once a part was appended, even ''
RECURSIVE UnparseLoop(_, _, _)
UnparseLoop(p, i, bits) ==
    IF i > Len(p) THEN bits
    ELSE LET bit == IF p[i].isName
                    THEN (IF i > 1 THEN <<".">> ELSE <<>>) \o p[i].name
                    ELSE <<"[">> \o FormatInt(p[i].idx) \o <<"]">>
         IN  UnparseLoop(p, i + 1, bits \o bit)

\* _unparse_key(parsed)
unparse_key(p) == UnparseLoop(p, 1, <<>>)

----------------------------------------------------------------------------
(* Values and OrderedDict *)

\* A value stored in a container is one of: a terminal (an opaque value of
\* the input), a reference to a _holder object, an OrderedDict (items: its
\* entries in insertion order), a list (items: its elements).
Terminal(v) == [t |-> "terminal", v |-> v, id |-> 0, items |-> <<>>]
HolderRef(i) == [t |-> "holder", v |-> "", id |-> i, items |-> <<>>]
DictValue(entries) == [t |-> "dict", v |-> "", id |-> 0, items |-> entries]
ListValue(elems) == [t |-> "list", v |-> "", id |-> 0, items |-> elems]

\* one (key, value) item of an OrderedDict
Entry(k, v) == [key |-> k, val |-> v]

\* key in d
Contains(d, k) == \E i \in 1..Len(d) : d[i].key = k

\* d[key], for a key that is in d
GetItem(d, k) == d[CHOOSE i \in 1..Len(d) : d[i].key = k].val

\* d.setdefault(key, value): an entry already there keeps its value
SetDefault(d, k, v) ==
    IF Contains(d, k) THEN d ELSE Append(d, Entry(k, v))

\* d[key] = value: a new key goes last, a known key keeps its place
SetItem(d, k, v) ==
    IF Contains(d, k)
    THEN [i \in 1..Len(d) |-> IF d[i].key = k THEN Entry(k, v) ELSE d[i]]
    ELSE Append(d, Entry(k, v))

----------------------------------------------------------------------------
(* class _holder, _dict_holder, _list_holder *)

\* _holder.__init__(flat_key); node_type is "dict" or "list"
NewHolder(node_type, fk) == [node_type |-> node_type, flat_key |-> fk, data |-> <<>>]

\* isinstance(value, _holder): every holder, whatever its class
IsHolder(value) == value.t = "holder"

\* isinstance(obj.get(last_key), _holder); obj.get gives None for no key
IsHolderAt(d, k) == Contains(d, k) /\ IsHolder(GetItem(d, k))

\* isinstance(value, holder_type) for holder_type _dict_holder or _list_holder
IsInstance(h, value, holder_type) ==
    IsHolder(value) /\ h[value.id].node_type = holder_type

\* the entries in the order of the OrderedDict, unsorted
UnsortedItems(d) == d

\* sorted(self.data.items(), key=itemgetter(0)) for int keys: insertion sort
RECURSIVE InsertSorted(_, _)
InsertSorted(sorted, e) ==
    IF sorted = <<>> THEN <<e>>
    ELSE IF e.key.idx < sorted[1].key.idx THEN <<e>> \o sorted
         ELSE <<sorted[1]>> \o InsertSorted(Tail(sorted), e)

RECURSIVE SortFrom(_, _, _)
SortFrom(d, i, acc) ==
    IF i > Len(d) THEN acc ELSE SortFrom(d, i + 1, InsertSorted(acc, d[i]))

SortedItems(d) == SortFrom(d, 1, <<>>)

\* the loop of _list_holder.getvalue over enumerate(items); n = i - 1
RECURSIVE ListWalk(_, _, _)
ListWalk(its, i, out) ==
    IF i > Len(its) \/ out.failed THEN out
    ELSE LET n == i - 1
             key == its[i].key.idx
         IN  IF key # n
             THEN IF ~(key > n)
                  THEN [out EXCEPT !.failed = TRUE]
                  ELSE ListWalk(its, i + 1,
                         [out EXCEPT !.value = out.value \o <<DictValue(<<>>), its[i].val>>])
             ELSE ListWalk(its, i + 1,
                         [out EXCEPT !.value = Append(out.value, its[i].val)])

\* holder.getvalue(): [value, failed]; failed = the assert raised
getvalue(holder) ==
    IF holder.node_type = "dict"
    THEN [value |-> DictValue(holder.data), failed |-> FALSE]
    ELSE LET w == ListWalk(SortedItems(holder.data), 1, [value |-> <<>>, failed |-> FALSE])
         IN  [value |-> ListValue(w.value), failed |-> w.failed]

----------------------------------------------------------------------------
(* unflatten(arg): the objects of one call *)

\* The objects a call works on: the _holder objects (heap), the root
\* OrderedDict (data) and the list holders.  An object is named by 0 (the
\* root) or by the index of a holder in heap.
Store(h, d, hs) == [heap |-> h, data |-> d, holders |-> hs]

\* the mapping behind obj: data itself, or the holder's self.data
ObjData(st, obj) == IF obj = 0 THEN st.data ELSE st.heap[obj].data

\* obj.setdefault(key, value)
SetDefaultObj(st, obj, k, v) ==
    IF obj = 0 THEN [st EXCEPT !.data = SetDefault(@, k, v)]
    ELSE [st EXCEPT !.heap[obj].data = SetDefault(@, k, v)]

\* obj[key] = value (OrderedDict.__setitem__ or _holder.__setitem__)
SetObj(st, obj, k, v) ==
    IF obj = 0 THEN [st EXCEPT !.data = SetItem(@, k, v)]
    ELSE [st EXCEPT !.heap[obj].data = SetItem(@, k, v)]

\* a check that lets any holder pass, whatever its class
NotAHolder(h, value, holder_type) == ~IsHolder(value)

\* "elif not isinstance(obj[key], holder_type)": the slot holds something else
TypeConflict(h, value, holder_type) == ~IsInstance(h, value, holder_type)

\* no check before the terminal assignment
NoTerminalCheck(d, last_key) == FALSE

\* "if isinstance(obj.get(last_key), _holder)": a terminal meets a holder
TerminalConflict(d, last_key) == IsHolderAt(d, last_key)

\* an assignment that keeps a value already there
AssignFirstWins(st, obj, last_key, val) == SetDefaultObj(st, obj, last_key, Terminal(val))

\* "obj[last_key] = val"
AssignTerminal(st, obj, last_key, val) == SetObj(st, obj, last_key, Terminal(val))

\* The loop over enumerate(zip(parsed_key, parsed_key[1:]), 1) from depth on,
\* with the cursor at obj: [st, obj, raised].
RECURSIVE Walk(_, _, _, _)
Walk(st, parsed_key, depth, obj) ==
    IF depth > Len(parsed_key) - 1 THEN [st |-> st, obj |-> obj, raised |-> FALSE]
    ELSE LET key == parsed_key[depth]
             next_key == parsed_key[depth + 1]
             holder_type == IF next_key.isName THEN "dict" ELSE "list"
             d == ObjData(st, obj)
         IN  IF ~Contains(d, key)
             THEN LET new == Len(st.heap) + 1
                      made == [st EXCEPT
                                 !.heap = Append(@, NewHolder(holder_type,
                                             unparse_key(SubSeq(parsed_key, 1, depth))))]
                      put == SetObj(made, obj, key, HolderRef(new))
                      rec == [put EXCEPT
                                 !.holders = Append(@, [obj |-> obj, key |-> key])]
                  IN  Walk(rec, parsed_key, depth + 1, new)
             ELSE IF TypeConflict(st.heap, GetItem(d, key), holder_type)
                  THEN [st |-> st, obj |-> obj, raised |-> TRUE]
                  ELSE Walk(st, parsed_key, depth + 1, GetItem(d, key).id)

\* lines 111-116, with the cursor the inner loop left in w: [st, raised]
SetLast(w, last_key, val) ==
    IF w.raised THEN [st |-> w.st, raised |-> TRUE]
    ELSE IF TerminalConflict(ObjData(w.st, w.obj), last_key)
         THEN [st |-> w.st, raised |-> TRUE]
         ELSE [st |-> AssignTerminal(w.st, w.obj, last_key, val), raised |-> FALSE]

\* lines 92-116 for the parsed key: [st, raised]
ProcessParsed(st, parsed_key, val) ==
    SetLast(Walk(st, parsed_key, 1, 0), parsed_key[Len(parsed_key)], val)

\* The body of "for flat_key, val in items" for one pair: [st, raised];
\* raised = a ValueError left the function.
process_pair(st, pair) == ProcessParsed(st, parse_key(pair.key), pair.val)

\* the holders in the order they were created
InCreationOrder(hs) == hs

\* reversed(holders)
reversed(hs) == [i \in 1..Len(hs) |-> hs[Len(hs) + 1 - i]]

\* "obj[key] = obj[key].getvalue()" with gv the result of getvalue: [st, error]
StoreValue(st, h, gv) ==
    IF gv.failed THEN [st |-> st, error |-> "AssertionError"]
    ELSE [st |-> SetObj(st, h.obj, h.key, gv.value), error |-> ""]

\* the same with cur = obj[key]; a value that is no holder has no getvalue
Materialize(st, h, cur) ==
    IF ~IsHolder(cur) THEN [st |-> st, error |-> "AttributeError"]
    ELSE StoreValue(st, h, getvalue(st.heap[cur.id]))

\* The body of "for obj, key in reversed(holders)" for one entry:
\* [st, error]; error is "" or the exception that left the function
\* (obj[key] without getvalue: AttributeError; the assert: AssertionError).
finalize_one(st, h) == Materialize(st, h, GetItem(ObjData(st, h.obj), h.key))

\* the for loop over the pairs from pair i on: [st, raised]
RECURSIVE LoopFrom(_, _, _)
LoopFrom(st, its, i) ==
    IF i > Len(its) THEN [st |-> st, raised |-> FALSE]
    ELSE LET r == process_pair(st, its[i])
         IN  IF r.raised THEN r ELSE LoopFrom(r.st, its, i + 1)

\* the finalization loop from entry j of the order on: [st, error]
RECURSIVE FinalizeFrom(_, _, _)
FinalizeFrom(st, order, j) ==
    IF j > Len(order) THEN [st |-> st, error |-> ""]
    ELSE LET r == finalize_one(st, order[j])
         IN  IF r.error # "" THEN r ELSE FinalizeFrom(r.st, order, j + 1)

\* what the call gives once the finalization loop ended in f
Outcome(f) ==
    IF f.error # "" THEN [outcome |-> f.error, data |-> <<>>]
    ELSE [outcome |-> "returned", data |-> f.st.data]

\* lines 118-121, after the loop over the pairs ended in l
AfterLoop(l) ==
    IF l.raised THEN [outcome |-> "ValueError", data |-> <<>>]
    ELSE Outcome(FinalizeFrom(l.st, reversed(l.st.holders), 1))

\* unflatten(its) as one call: [outcome, data]; outcome is "returned",
\* "ValueError", "AttributeError" or "AssertionError"
unflatten(its) == AfterLoop(LoopFrom(Store(<<>>, <<>>, <<>>), its, 1))

----------------------------------------------------------------------------
(* The inputs *)

\* the characters of the strings handed to _parse_key in the round trip
Alphabet == {"a", ".", "[", "]", "0", "1"}

Strings(n) == UNION {[1..m -> Alphabet] : m \in 0..n}

Kfoo == <<"f", "o", "o">>
Kbar == <<"b", "a", "r">>
Kbaz == <<"b", "a", "z">>
Idx(ds) == <<"[">> \o ds \o <<"]">>

\* the flat keys of the pairs given to unflatten
Keys == { Kfoo,                                      \* foo
          Kfoo \o <<".">> \o Kbar,                   \* foo.bar
          Kfoo \o Idx(<<"0">>),                      \* foo[0]
          Kfoo \o Idx(<<"0", "0">>),                 \* foo[00]
          Kfoo \o Idx(<<"2">>),                      \* foo[2]
          Kfoo \o Idx(<<"0">>) \o <<".">> \o Kbar,   \* foo[0].bar
          Kfoo \o Idx(<<"1">>) \o <<".">> \o Kbaz,   \* foo[1].baz
          Kfoo \o Idx(<<"0">>) \o Idx(<<"0">>) }     \* foo[0][0]

\* the values of the pairs: opaque, never inspected
Vals == {"val", "x"}

Pairs == [key : Keys, val : Vals]

PairSeqs(n) == UNION {[1..m -> Pairs] : m \in 0..n}

----------------------------------------------------------------------------
(* The call of unflatten, step by step *)

ParseIdle ==
    /\ flat_key = <<>> /\ parsed = <<>> /\ unparsed = <<>> /\ reparsed = <<>>
    /\ ppc = "idle"

UnflattenIdle ==
    /\ items = <<>> /\ next_item = 1 /\ heap = <<>> /\ data = <<>>
    /\ holders = <<>> /\ fin = 0 /\ assert_failed = FALSE /\ pc = "idle"

NoOutcome == [outcome |-> "", data |-> <<>>]

OrderIdle ==
    /\ permuted = <<>> /\ first = NoOutcome /\ second = NoOutcome /\ opc = "idle"

\* data = OrderedDict(); holders = []
Init ==
    /\ items \in PairSeqs(MaxPairs)
    /\ next_item = 1
    /\ heap = <<>>
    /\ data = <<>>
    /\ holders = <<>>
    /\ fin = 0
    /\ assert_failed = FALSE
    /\ pc = "loop"
    /\ ParseIdle
    /\ OrderIdle

\* one iteration of "for flat_key, val in items"
ProcessPair ==
    /\ pc = "loop"
    /\ next_item <= Len(items)
    /\ LET r == process_pair(Store(heap, data, holders), items[next_item])
       IN  /\ heap' = r.st.heap
           /\ data' = r.st.data
           /\ holders' = r.st.holders
           /\ pc' = IF r.raised THEN "raised" ELSE "loop"
           /\ next_item' = IF r.raised THEN next_item ELSE next_item + 1
    /\ UNCHANGED <<items, fin, assert_failed>>
    /\ UNCHANGED parse_vars
    /\ UNCHANGED order_vars

\* the for loop has consumed every pair
LoopDone ==
    /\ pc = "loop"
    /\ next_item > Len(items)
    /\ pc' = "finalize"
    /\ UNCHANGED <<items, next_item, heap, data, holders, fin, assert_failed>>
    /\ UNCHANGED parse_vars
    /\ UNCHANGED order_vars

\* one iteration of "for obj, key in reversed(holders)"
FinalizeHolder ==
    /\ pc = "finalize"
    /\ fin < Len(holders)
    /\ LET r == finalize_one(Store(heap, data, holders), reversed(holders)[fin + 1])
       IN  /\ heap' = r.st.heap
           /\ data' = r.st.data
           /\ assert_failed' = (r.error = "AssertionError")
           /\ pc' = IF r.error = "" THEN "finalize" ELSE r.error
           /\ fin' = IF r.error = "" THEN fin + 1 ELSE fin
    /\ UNCHANGED <<items, next_item, holders>>
    /\ UNCHANGED parse_vars
    /\ UNCHANGED order_vars

\* "return data"
Return ==
    /\ pc = "finalize"
    /\ fin = Len(holders)
    /\ pc' = "returned"
    /\ UNCHANGED <<items, next_item, heap, data, holders, fin, assert_failed>>
    /\ UNCHANGED parse_vars
    /\ UNCHANGED order_vars

Next == ProcessPair \/ LoopDone \/ FinalizeHolder \/ Return

Spec == Init /\ [][Next]_vars

----------------------------------------------------------------------------
(* The round trip of the key parser *)

InitParse ==
    /\ flat_key \in Strings(MaxLen)
    /\ parsed = <<>>
    /\ unparsed = <<>>
    /\ reparsed = <<>>
    /\ ppc = "start"
    /\ UnflattenIdle
    /\ OrderIdle

Parse ==
    /\ ppc = "start"
    /\ parsed' = parse_key(flat_key)
    /\ ppc' = "parsed"
    /\ UNCHANGED <<flat_key, unparsed, reparsed>>
    /\ UNCHANGED unflatten_vars
    /\ UNCHANGED order_vars

Unparse ==
    /\ ppc = "parsed"
    /\ unparsed' = unparse_key(parsed)
    /\ ppc' = "unparsed"
    /\ UNCHANGED <<flat_key, parsed, reparsed>>
    /\ UNCHANGED unflatten_vars
    /\ UNCHANGED order_vars

Reparse ==
    /\ ppc = "unparsed"
    /\ reparsed' = parse_key(unparsed)
    /\ ppc' = "reparsed"
    /\ UNCHANGED <<flat_key, parsed, unparsed>>
    /\ UNCHANGED unflatten_vars
    /\ UNCHANGED order_vars

NextParse == Parse \/ Unparse \/ Reparse

SpecParse == InitParse /\ [][NextParse]_vars

----------------------------------------------------------------------------
(* Two calls: unflatten on a sequence of pairs, then on a permutation of it *)

\* the keys of the pairs that are permuted
OrderKeys == { Kfoo \o <<".">> \o Kbar,                   \* foo.bar
               Kfoo \o Idx(<<"0">>),                      \* foo[0]
               Kfoo \o Idx(<<"2">>),                      \* foo[2]
               Kfoo \o Idx(<<"0">>) \o <<".">> \o Kbar,   \* foo[0].bar
               Kfoo \o Idx(<<"0">>) \o <<".">> \o Kbaz }  \* foo[0].baz

OrderPairSeqs(n) == UNION {[1..m -> [key : OrderKeys, val : Vals]] : m \in 0..n}

Orders(n) == {f \in [1..n -> 1..n] : \A i, j \in 1..n : f[i] = f[j] => i = j}

InitOrder ==
    /\ items \in OrderPairSeqs(MaxOrderPairs)
    /\ next_item = 1 /\ heap = <<>> /\ data = <<>>
    /\ holders = <<>> /\ fin = 0 /\ assert_failed = FALSE /\ pc = "idle"
    /\ permuted = <<>>
    /\ first = NoOutcome
    /\ second = NoOutcome
    /\ opc = "first"
    /\ ParseIdle

\* unflatten(items)
CallFirst ==
    /\ opc = "first"
    /\ first' = unflatten(items)
    /\ opc' = "second"
    /\ UNCHANGED <<permuted, second>>
    /\ UNCHANGED unflatten_vars
    /\ UNCHANGED parse_vars

\* unflatten on the same pairs in another order
CallPermuted ==
    /\ opc = "second"
    /\ \E f \in Orders(Len(items)) :
          /\ permuted' = [i \in 1..Len(items) |-> items[f[i]]]
          /\ second' = unflatten(permuted')
    /\ opc' = "compared"
    /\ UNCHANGED first
    /\ UNCHANGED unflatten_vars
    /\ UNCHANGED parse_vars

NextOrder == CallFirst \/ CallPermuted

SpecOrder == InitOrder /\ [][NextOrder]_vars

----------------------------------------------------------------------------
(* Vocabulary of the properties *)

\* the parsed paths of the pairs of the argument, in order
Paths == [i \in 1..Len(items) |-> parse_key(items[i].key)]

\* p is a proper prefix of q
IsProperPrefix(p, q) == Len(p) < Len(q) /\ SubSeq(q, 1, Len(p)) = p

\* p and q share a prefix after which one has a field name, the other an index
DictListConflict(p, q) ==
    \E d \in 1..(Len(p) - 1) :
        /\ d < Len(q)
        /\ SubSeq(p, 1, d) = SubSeq(q, 1, d)
        /\ p[d + 1].isName # q[d + 1].isName

\* no two of the paths require two different things of one slot
NoConflict(path) ==
    \A i, j \in DOMAIN path :
        /\ ~DictListConflict(path[i], path[j])
        /\ ~IsProperPrefix(path[i], path[j])

\* the last of the paths that equals path i
LastSamePath(path, i) ==
    CHOOSE j \in DOMAIN path :
        /\ path[j] = path[i]
        /\ \A k \in DOMAIN path : path[k] = path[i] => k <= j

\* the prefixes of the paths that are followed by an index
ListPrefixes(path) ==
    UNION {{SubSeq(path[i], 1, d)
              : d \in {e \in 1..(Len(path[i]) - 1) : ~path[i][e + 1].isName}}
             : i \in DOMAIN path}

\* the indices the paths assign in the sequence at prefix p
AssignedAt(path, p) ==
    {path[i][Len(p) + 1].idx :
        i \in {k \in DOMAIN path :
                 IsProperPrefix(p, path[k]) /\ ~path[k][Len(p) + 1].isName}}

\* every sequence's assigned indices are 0..m, without a gap
NoGaps(path) ==
    \A p \in ListPrefixes(path) :
        AssignedAt(path, p) = 0..(Cardinality(AssignedAt(path, p)) - 1)

Missing == [t |-> "missing", v |-> "", id |-> 0, items |-> <<>>]

\* value[path[d]][path[d+1]]...: a field name looks up a mapping, an index a list
RECURSIVE Navigate(_, _, _)
Navigate(value, path, d) ==
    IF d > Len(path) THEN value
    ELSE IF path[d].isName
         THEN IF value.t = "dict" /\ Contains(value.items, path[d])
              THEN Navigate(GetItem(value.items, path[d]), path, d + 1)
              ELSE Missing
         ELSE IF value.t = "list" /\ path[d].idx + 1 <= Len(value.items)
              THEN Navigate(value.items[path[d].idx + 1], path, d + 1)
              ELSE Missing

\* no _holder anywhere in a value
RECURSIVE NoHolderIn(_)
NoHolderIn(value) ==
    CASE value.t = "holder" -> FALSE
      [] value.t = "dict" ->
            \A i \in 1..Len(value.items) : NoHolderIn(value.items[i].val)
      [] value.t = "list" ->
            \A i \in 1..Len(value.items) : NoHolderIn(value.items[i])
      [] OTHER -> TRUE

\* a nested structure with the order of the keys of its mappings forgotten
RECURSIVE Canon(_)
Canon(value) ==
    CASE value.t = "dict" ->
            [t |-> "dict", v |-> "", id |-> 0,
             items |-> {Entry(value.items[i].key, Canon(value.items[i].val))
                          : i \in 1..Len(value.items)}]
      [] value.t = "list" ->
            [t |-> "list", v |-> "", id |-> 0,
             items |-> {Entry(Index(i - 1), Canon(value.items[i]))
                          : i \in 1..Len(value.items)}]
      [] OTHER -> [t |-> value.t, v |-> value.v, id |-> value.id, items |-> {}]

\* holder k (k-th created) has been finalized
Finalized(k) ==
    /\ pc \in {"finalize", "returned"}
    /\ k \in 1..Len(holders)
    /\ k > Len(holders) - fin

\* the value that took the place of holder k in its parent
MaterializedAt(k) ==
    GetItem(ObjData(Store(heap, data, holders), holders[k].obj), holders[k].key)

MaxOf(S) == CHOOSE m \in S : \A x \in S : x <= m

\* value is the dense list of the (index, value) entries d
DenseListOf(value, d) ==
    LET assigned == {d[i].key.idx : i \in 1..Len(d)}
    IN  /\ value.t = "list"
        /\ Len(value.items) = MaxOf(assigned) + 1
        /\ \A i \in 1..Len(d) : value.items[d[i].key.idx + 1] = d[i].val
        /\ \A n \in 0..MaxOf(assigned) :
              n \notin assigned => value.items[n + 1] = DictValue(<<>>)

----------------------------------------------------------------------------
(* The properties *)

\* C1: materializing a Sequence Holder yields a dense list: its length is the
\* largest assigned index + 1, the value assigned to index i stands at
\* position i, and every unassigned position below holds an empty mapping
\* (so the pair ('foo[2]', 'z') gives {'foo': [{}, {}, 'z']}).
C1_DenseList ==
    \A k \in 1..Len(holders) :
        (Finalized(k) /\ heap[k].node_type = "list")
            => DenseListOf(MaterializedAt(k), heap[k].data)

\* C2: when unflatten returns and no sequence of the argument has a gap in
\* its indices, navigating the result along the parsed key of any pair
\* reaches the value of the last pair whose key parses to the same path.
C2_NavigateReachesLastValue ==
    pc = "returned" =>
        LET path == Paths
        IN  NoGaps(path) =>
               \A i \in 1..Len(items) :
                   Navigate(DictValue(data), path[i], 1)
                       = Terminal(items[LastSamePath(path, i)].val)

\* {'foo[0].bar': 'val', 'foo[1].baz': 'x'} has given
\* {'foo': [{'bar': 'val'}, {'baz': 'x'}]}
C2_Witness ==
    /\ pc = "returned"
    /\ NoGaps(Paths)
    /\ data = <<Entry(Name(Kfoo), ListValue(<<
                  DictValue(<<Entry(Name(Kbar), Terminal("val"))>>),
                  DictValue(<<Entry(Name(Kbaz), Terminal("x"))>>) >>))>>

\* the parsed path of pair i of the argument
PathOf(i) == parse_key(items[i].key)

\* the loop is at or before pair j, or ValueError was raised there or before
StoppedBy(j) == pc \in {"loop", "raised"} /\ next_item <= j

\* C3: when two pairs share a path prefix after which one has a field name
\* and the other an index, the loop never gets past the later of the two and
\* the call neither finalizes nor returns: it ends by raising ValueError,
\* whichever of the two pairs comes first.
C3_DictListConflictRaises ==
    \A j \in 1..Len(items) :
        ~StoppedBy(j) =>
            \A i \in 1..(j - 1) : ~DictListConflict(PathOf(i), PathOf(j))

\* the index came first, the field name second, and ValueError was raised
C3_Witness ==
    /\ pc = "raised"
    /\ Len(items) = 2
    /\ next_item = 2
    /\ DictListConflict(Paths[1], Paths[2])
    /\ ~Paths[1][2].isName
    /\ Paths[2][2].isName

\* C4: when the path of one pair is a proper prefix of the path of another,
\* the loop never gets past the later of the two and the call neither
\* finalizes nor returns: it ends by raising ValueError, in both orders.
C4_TerminalHolderConflictRaises ==
    \A j \in 1..Len(items) :
        ~StoppedBy(j) =>
            \A i \in 1..(j - 1) :
                /\ ~IsProperPrefix(PathOf(i), PathOf(j))
                /\ ~IsProperPrefix(PathOf(j), PathOf(i))

\* nested first ('foo[0].bar'), then the terminal at the list index ('foo[0]')
C4_Witness ==
    /\ pc = "raised"
    /\ Len(items) = 2
    /\ next_item = 2
    /\ IsProperPrefix(Paths[2], Paths[1])
    /\ ~Paths[2][Len(Paths[2])].isName

\* C5: when a holder is materialized, no holder is left among its values
\* (its children were replaced before), every materialized value is free of
\* holders, and so is the structure unflatten returns.
C5_NoHolderLeaks ==
    /\ (pc = "finalize" /\ fin < Len(holders)) =>
          LET h == reversed(holders)[fin + 1]
              cur == GetItem(ObjData(Store(heap, data, holders), h.obj), h.key)
          IN  /\ IsHolder(cur)
              /\ \A i \in 1..Len(heap[cur.id].data) :
                    NoHolderIn(heap[cur.id].data[i].val)
    /\ \A k \in 1..Len(holders) : Finalized(k) => NoHolderIn(MaterializedAt(k))
    /\ pc = "returned" => NoHolderIn(DictValue(data))

\* a call that built a holder inside a holder has returned
C5_Witness ==
    /\ pc = "returned"
    /\ \E k \in 1..Len(holders) : holders[k].obj # 0

\* C6: pairs whose keys parse to the same path, all of them terminal
\* assignments, raise no error, and the result holds at that path the value
\* of the last of them.
C6_LastWriteWins ==
    pc \in {"raised", "returned"} =>
        LET path == Paths
        IN  NoConflict(path) =>
               /\ pc # "raised"
               /\ \A i \in 1..Len(items) :
                     (\E j \in 1..Len(items) : j # i /\ path[j] = path[i])
                         => Navigate(DictValue(data), path[i], 1)
                                = Terminal(items[LastSamePath(path, i)].val)

\* C7: parse_key(unparse_key(p)) = p for every p = parse_key(s)
C7_RoundTrip == ppc = "reparsed" => reparsed = parsed

\* the round trip of '.[01]': an empty first segment, an empty field name
\* after the dot, an index written with a leading zero
C7_Witness ==
    /\ ppc = "reparsed"
    /\ flat_key = <<".", "[", "0", "1", "]">>
    /\ parsed = <<Name(<<>>), Name(<<>>), Index(1)>>
    /\ unparsed # flat_key

\* s[i..j] is a bracket group that holds digits and other characters (no
\* bracket, no dot) and is followed by '.' or the end of the string
MalformedGroup(s, i, j) ==
    /\ i < j /\ j <= Len(s)
    /\ s[i] = "[" /\ s[j] = "]"
    /\ \A k \in (i + 1)..(j - 1) : s[k] \notin {"[", "]", "."}
    /\ \E k \in (i + 1)..(j - 1) : IsDigit(s[k])
    /\ \E k \in (i + 1)..(j - 1) : ~IsDigit(s[k])
    /\ (j = Len(s) \/ s[j + 1] = ".")

\* sub occurs in s as a run of consecutive elements
OccursIn(sub, s) ==
    \E a \in 1..(Len(s) - Len(sub) + 1) : SubSeq(s, a, a + Len(sub) - 1) = sub

\* C8 as stated: a malformed bracket group yields index segments from the
\* digits between its brackets ('foo[1a]' gives 'foo', then index 1).
C8_DigitsExtracted ==
    ppc = "parsed" =>
        \A i, j \in 1..Len(flat_key) :
            MalformedGroup(flat_key, i, j) =>
                OccursIn(FindInts(SubSeq(flat_key, i + 1, j - 1), 1), parsed)

\* C8 amended: a malformed bracket group yields no index segment: it stays,
\* brackets included, inside one field name ('a[1a]' is the one name 'a[1a]').
C8_MalformedGroupStaysInName ==
    ppc = "parsed" =>
        /\ \A i, j \in 1..Len(flat_key) :
              MalformedGroup(flat_key, i, j) =>
                  \E k \in 1..Len(parsed) :
                      /\ parsed[k].isName
                      /\ OccursIn(SubSeq(flat_key, i, j), parsed[k].name)
        /\ (\E i, j \in 1..Len(flat_key) :
                MalformedGroup(flat_key, i, j) /\ j = Len(flat_key)
                /\ \A k \in 1..(i - 1) : flat_key[k] \notin {".", "[", "]"})
              => parsed = <<Name(flat_key)>>

C8_Witness ==
    /\ ppc = "parsed"
    /\ flat_key = <<"a", "[", "1", "a", "]">>
    /\ parsed = <<Name(flat_key)>>

\* C9: the assert of _list_holder.getvalue never fails: in every Sequence
\* Holder the n-th entry by ascending index (n from 0) has an index >= n, so
\* an index that differs from n is greater than n.
C9_AssertNeverFails ==
    /\ ~assert_failed
    /\ pc # "AssertionError"
    /\ \A k \in 1..Len(heap) :
          heap[k].node_type = "list" =>
              LET its == SortedItems(heap[k].data)
              IN  \A n \in 0..(Len(its) - 1) : its[n + 1].key.idx >= n

\* a Sequence Holder with an index that differs from n has been materialized
C9_Witness ==
    /\ pc = "returned"
    /\ \E k \in 1..Len(heap) :
          /\ heap[k].node_type = "list"
          /\ \E n \in 0..(Len(heap[k].data) - 1) :
                SortedItems(heap[k].data)[n + 1].key.idx > n

\* no two pairs of the argument have keys that parse to the same path
DistinctPaths ==
    \A i, j \in 1..Len(items) : Paths[i] = Paths[j] => i = j

\* C10: unflatten raises ValueError on a permutation of the pairs exactly
\* when it raises ValueError on the pairs; when it raises on neither and no
\* two keys parse to the same path, the two results are equal up to the
\* order of the keys of the mappings.
C10_OrderIndependent ==
    opc = "compared" =>
        /\ (first.outcome = "ValueError") = (second.outcome = "ValueError")
        /\ (first.outcome = "returned" /\ second.outcome = "returned" /\ DistinctPaths)
              => Canon(DictValue(first.data)) = Canon(DictValue(second.data))

\* a conflict met at the second pair in one order and at the third pair in
\* the other has raised ValueError in both
C10_Witness ==
    /\ opc = "compared"
    /\ Len(items) = 3
    /\ first.outcome = "ValueError"
    /\ second.outcome = "ValueError"
    /\ permuted # items
    /\ unflatten(SubSeq(items, 1, 2)).outcome = "ValueError"
    /\ unflatten(SubSeq(permuted, 1, 2)).outcome = "returned"

\* two calls on three pairs with distinct paths have returned mappings whose
\* keys are in different orders
C10_ReturnedInBothOrders ==
    /\ opc = "compared"
    /\ Len(items) = 3
    /\ DistinctPaths
    /\ first.outcome = "returned"
    /\ second.outcome = "returned"
    /\ first.data # second.data

====
